---------------------------- MODULE Spec2Model ----------------------------
(***************************************************************************)
(* Visual TodoFlow: the node graph of the flow editor, the task order the  *)
(* todo list derives from it (Kahn's topological sort), the manual         *)
(* re-ordering of that list, the completion checkbox of the list, the      *)
(* local-cache / remote-store protocol of the editor page and the cleanup  *)
(* of the cache on mount.                                                  *)
(*                                                                         *)
(* The specifications share the variables:                                 *)
(*   SpecOrder   getOrderedTasks run step by step on every bounded input   *)
(*   SpecEditor  the canvas menus and the todo list's delete               *)
(*   SpecTodo    the manual order of the todo list under graph edits       *)
(*   SpecLoad    loads from the remote store while the session changes     *)
(*   SpecSave    saves to the remote store                                 *)
(*   SpecDelete  saved documents deleted while documents are loaded        *)
(*   SpecCache   the auto-save of the graph and the tag to the cache       *)
(*   SpecCleanup cleanupLocalStorage on every bounded storage              *)
(*   SpecGraph   every operation that changes nodes or edges               *)
(*   SpecComplete tasks marked complete while the graph is edited          *)
(***************************************************************************)
EXTENDS Integers, Sequences, FiniteSets, TLC

(***************************************************************************)
(* Bounds of the model.                                                    *)
(***************************************************************************)
\* SpecOrder: the longest node list and edge list getOrderedTasks is run on
MaxNodes == 3
MaxEdges == 2
\* the editor: the largest value the node id counter reaches, the most edges
\* the canvas holds, the most load requests in flight, and the most
\* identifiers generateUuid hands out after the first
MaxId == 3
MaxCanvasEdges == 2
MaxLoads == 2
MaxFresh == 2
\* SpecCleanup: how many ms around 'exactly 7 days old' and around 'now'
\* the timestamps of the stored entries are drawn
MaxSkew == 1

(***************************************************************************)
(* Generic helpers on sequences.                                           *)
(***************************************************************************)
Range(s) == {s[i] : i \in 1..Len(s)}

\* Array.prototype.indexOf, 1-based; 0 when absent (JavaScript's -1)
IndexOf(s, x) ==
  IF \E i \in 1..Len(s) : s[i] = x
  THEN CHOOSE i \in 1..Len(s) : s[i] = x /\ \A j \in 1..(i - 1) : s[j] # x
  ELSE 0

\* how many places of s hold x
Count(s, x) == Cardinality({i \in 1..Len(s) : s[i] = x})

\* every sequence over S of length at most n
SeqsUpTo(S, n) == UNION {[1..k -> S] : k \in 0..n}

\* every sequence that lists each element of the set S exactly once
Perms(S) == {p \in [1..Cardinality(S) -> S] : Range(p) = S}

(***************************************************************************)
(* Nodes and edges as React Flow holds them.  Only the fields the editor   *)
(* and the todo list read or write are kept.                               *)
(***************************************************************************)
\* a node as addNode creates it: the interaction flags are unset, which
\* React Flow reads as "allowed"
NewNode(i) ==
  [id |-> i, position |-> 0, completed |-> FALSE,
   draggable |-> TRUE, selectable |-> TRUE, connectable |-> TRUE,
   deletable |-> TRUE]

NewEdge(s, t) == [source |-> s, target |-> t]

NodeIds(nodes) == {nodes[i].id : i \in 1..Len(nodes)}
IdsOf(nodes) == [i \in 1..Len(nodes) |-> nodes[i].id]

(***************************************************************************)
(* getOrderedTasks: Kahn's algorithm.                                      *)
(***************************************************************************)
\* nodeMap.has(id)
nodeMapHas(nodes, id) == id \in NodeIds(nodes)

\* nodeMap.get(id): new Map(entries) keeps the last entry of a key
nodeMapGet(nodes, id) ==
  nodes[CHOOSE i \in 1..Len(nodes) :
          nodes[i].id = id /\ \A j \in (i + 1)..Len(nodes) : nodes[j].id # id]

\* the edges.forEach guard: both ends are in the node map
edgeCounts(nodes, e) == nodeMapHas(nodes, e.source) /\ nodeMapHas(nodes, e.target)

\* mutant of initInDegree: the edge's source is counted, not its target
initInDegree_BySource(nodes, edges) ==
  [v \in NodeIds(nodes) |->
     Cardinality({k \in 1..Len(edges) :
                    edgeCounts(nodes, edges[k]) /\ edges[k].source = v})]

\* inDegree after the edges.forEach loop
initInDegree(nodes, edges) ==
  [v \in NodeIds(nodes) |->
     Cardinality({k \in 1..Len(edges) :
                    edgeCounts(nodes, edges[k]) /\ edges[k].target = v})]

RECURSIVE targetsOf(_, _, _)
\* adj.get(u) after the edges.forEach loop: the targets in edge order
targetsOf(nodes, edges, u) ==
  IF edges = <<>> THEN <<>>
  ELSE LET e == Head(edges)
           rest == targetsOf(nodes, Tail(edges), u)
       IN IF edgeCounts(nodes, e) /\ e.source = u THEN <<e.target>> \o rest
          ELSE rest

initAdj(nodes, edges) == [u \in NodeIds(nodes) |-> targetsOf(nodes, edges, u)]

\* mutant of seedQueue: every node is put on the queue
seedQueue_EveryNode(nodes, inDeg) == IdsOf(nodes)

RECURSIVE seedQueue(_, _)
\* the queue after nodes.forEach: the zero in-degree ids in node order
seedQueue(nodes, inDeg) ==
  IF nodes = <<>> THEN <<>>
  ELSE LET rest == seedQueue(Tail(nodes), inDeg)
       IN IF inDeg[Head(nodes).id] = 0 THEN <<Head(nodes).id>> \o rest
          ELSE rest

RECURSIVE relax(_, _, _)
\* adj.get(u).forEach(v => ...): decrement, and enqueue on reaching zero
relax(targets, inDeg, q) ==
  IF targets = <<>> THEN [inDegree |-> inDeg, queue |-> q]
  ELSE LET v == Head(targets)
           currentInDegree == inDeg[v] - 1
       IN relax(Tail(targets),
                [inDeg EXCEPT ![v] = currentInDegree],
                IF currentInDegree = 0 THEN Append(q, v) ELSE q)

\* one pass of the while loop on the state k = [inDegree, adj, queue, sortedList]
dequeueStep(nodes, k) ==
  LET u == Head(k.queue)
      r == relax(k.adj[u], k.inDegree, Tail(k.queue))
  IN [inDegree |-> r.inDegree,
      adj |-> k.adj,
      queue |-> r.queue,
      sortedList |-> IF nodeMapHas(nodes, u)
                     THEN Append(k.sortedList, nodeMapGet(nodes, u))
                     ELSE k.sortedList]

\* the state on entering the while loop
kahnStart(nodes, edges) ==
  LET d == initInDegree(nodes, edges)
  IN [inDegree |-> d,
      adj |-> initAdj(nodes, edges),
      queue |-> seedQueue(nodes, d),
      sortedList |-> <<>>]

\* mutant of remainingNodes: the unvisited nodes come last node first
remainingNodes_Reversed(nodes, sortedList) ==
  LET kept == SelectSeq(nodes, LAMBDA n : n.id \notin NodeIds(sortedList))
  IN [i \in 1..Len(kept) |-> kept[Len(kept) + 1 - i]]

\* nodes.filter(n => !sortedList.find(sn => sn.id === n.id))
remainingNodes(nodes, sortedList) ==
  SelectSeq(nodes, LAMBDA n : n.id \notin NodeIds(sortedList))

\* mutant of kahnResult: the unvisited nodes are not appended
kahnResult_NoRemainder(nodes, sortedList) == sortedList

\* the value returned once the queue is empty
kahnResult(nodes, sortedList) ==
  IF Len(sortedList) # Len(nodes)
  THEN sortedList \o remainingNodes(nodes, sortedList)
  ELSE sortedList

RECURSIVE kahnLoop(_, _)
kahnLoop(nodes, k) ==
  IF k.queue = <<>> THEN k ELSE kahnLoop(nodes, dequeueStep(nodes, k))

getOrderedTasks(nodes, edges) ==
  kahnResult(nodes, kahnLoop(nodes, kahnStart(nodes, edges)).sortedList)

(***************************************************************************)
(* State.                                                                  *)
(***************************************************************************)
VARIABLES
  \* --- getOrderedTasks run step by step (SpecOrder) ---
  oNodes,       \* the nodes argument
  oEdges,       \* the edges argument
  oState,       \* [inDegree, adj, queue, sortedList] of the run
  oResult,      \* the returned list
  oPc,          \* "start" | "loop" | "done"
  oPushes,      \* per node id, how often it was pushed on the queue
  oIterations,  \* passes of the while loop so far
  \* --- FlowEditor: the graph and its menus ---
  nodes,        \* useState<Node[]>
  edges,        \* useState<Edge[]>
  pristine,     \* nodes === initialNodes && edges === initialEdges
  id,           \* the module-level node id counter
  clipboard,    \* <<>> or <<[node, type]>>
  \* --- TodoList ---
  taskOrder,    \* useState<string[]>: the manually sortable list of ids
  \* --- TodoList with the completion checkbox ---
  connectedOrder, \* its taskOrder: the ids of the connected nodes, in order
  completedTasks, \* useState<Set<string>>
  \* --- FlowEditor: persistence ---
  currentTag,
  currentUuid,
  hasUnsavedChanges,
  isLoading,
  isSaving,
  isAuthenticated,
  showLoginModal,
  flowcharts,   \* the uuids of the listed saved documents
  uuidsIssued,  \* how many identifiers generateUuid has handed out
  localStorage, \* key -> entry, for the keys under the namespace prefix
  \* --- the remote store and the requests in flight ---
  remote,       \* uuid -> saved document
  loads,        \* loadFlowchart calls awaiting their response
  saves,        \* confirmSave calls awaiting their response
  deletes,      \* confirmDeleteFlowchart calls awaiting their response
  notice,       \* the last message confirmSave has shown
  loadFlow,     \* the message shown under the key 'loadFlow'
  \* --- cleanupLocalStorage on the browser's storage (SpecCleanup) ---
  rawStorage,   \* key -> stored text, for every key of the origin
  startupTime,  \* Date.now() when the cleanup runs
  cleanupPc,    \* "mount" | "done"
  itemsRemoved, \* the count the cleanup logs
  \* --- useAuth and the page's URL ---
  storedToken,  \* 'auth_token' with 'token_timestamp': "none" | "fresh" | "expired"
  talkParam,    \* searchParams.get('talk'): a uuid, or "" when absent
  mounted,      \* the mount effects have run
  refusedLoads, \* history: the uuids loadFlowchart was refused for, not authenticated
  \* --- loadFromLocalStorage on the browser's storage (SpecShape) ---
  lsReturned,   \* the last call: [uuid, value], value <<parsedData>> or <<>> for null
  \* --- POST /api/notion/save (SpecRoute) ---
  routePc,        \* "idle" | "request" | "settle" | "respond" | "done"
  routeBody,      \* the request body: [nodes, changed]
  routePages,     \* the Node IDs of the pages the database holds
  routePromises,  \* the operations issued: [op, nodeId, status]
  routeResponse   \* <<>> or <<[status, success]>>

orderVars == <<oNodes, oEdges, oState, oResult, oPc, oPushes, oIterations>>

\* the state of the TodoList with the completion checkbox
listVars == <<connectedOrder, completedTasks>>

graphVars == <<nodes, edges, pristine, id, clipboard, taskOrder, listVars>>

syncVars ==
  <<currentTag, currentUuid, hasUnsavedChanges, isLoading, isSaving,
    isAuthenticated, showLoginModal, flowcharts, uuidsIssued, localStorage,
    remote, loads, saves, deletes, notice, loadFlow>>

\* what the canvas and todo-list handlers leave alone
restVars ==
  <<isSaving, isAuthenticated, showLoginModal, flowcharts, uuidsIssued, remote,
    loads, saves, deletes, notice, loadFlow>>

cleanupVars == <<rawStorage, startupTime, cleanupPc, itemsRemoved>>

authVars == <<storedToken, talkParam, mounted, refusedLoads>>

routeVars == <<routePc, routeBody, routePages, routePromises, routeResponse>>

\* what lies outside the editor component and its hooks
outsideVars == <<lsReturned, routeVars>>

vars == <<orderVars, graphVars, syncVars, cleanupVars, authVars, outsideVars>>

(***************************************************************************)
(* The local cache (localStorage under the prefix 'visual-todoflow:').     *)
(* An entry is [nodes, edges, tag, savedAt]; savedAt is <<t>> or, for an   *)
(* entry written without a timestamp, <<>>.                                *)
(***************************************************************************)
DefaultTag == "untitled"
ScratchKey == "new"
NoUuid == ""

\* generateUuid(): the n-th identifier of the session
generateUuid(n) == "g" \o ToString(n)

\* localStorage.setItem
setItem(ls, key, entry) == (key :> entry) @@ ls

\* localStorage.removeItem
removeItem(ls, key) == [k \in (DOMAIN ls) \ {key} |-> ls[k]]

\* the record saveToLocalStorage writes: the data and a savedAt timestamp
stampedEntry(n, e, tag) == [nodes |-> n, edges |-> e, tag |-> tag, savedAt |-> <<0>>]

\* the record the scratch-entry effect writes: the data alone
scratchEntry(n, e, tag) == [nodes |-> n, edges |-> e, tag |-> tag, savedAt |-> <<>>]

saveToLocalStorage(ls, uuid, n, e, tag) ==
  IF uuid = NoUuid THEN ls ELSE setItem(ls, uuid, stampedEntry(n, e, tag))

\* the shape check of loadFromLocalStorage
validEntry(entry) == entry.savedAt # <<>>

\* loadFromLocalStorage: <<entry>> when a valid entry is stored, else <<>>
loadFromLocalStorage(ls, uuid) ==
  IF uuid # NoUuid /\ uuid \in DOMAIN ls /\ validEntry(ls[uuid])
  THEN <<ls[uuid]>> ELSE <<>>

\* localStorage after loadFromLocalStorage: an invalid entry is removed
afterLoadFromLocalStorage(ls, uuid) ==
  IF uuid # NoUuid /\ uuid \in DOMAIN ls /\ ~validEntry(ls[uuid])
  THEN removeItem(ls, uuid) ELSE ls

clearFromLocalStorage(ls, uuid) ==
  IF uuid = NoUuid THEN ls ELSE removeItem(ls, uuid)

(***************************************************************************)
(* The effects that follow a render of FlowEditor and TodoList.  A handler *)
(* leaves the React state r = [nodes, edges, tag, uuid, unsaved, loading,  *)
(* ls]; graphSet says that it put a new array in nodes or edges.  The      *)
(* effects whose dependencies changed run, and run again when they change  *)
(* hasUnsavedChanges themselves.                                           *)
(***************************************************************************)
\* the scratch-entry effect: 'Save to localStorage whenever nodes/edges change'
scratchEffect(r, unsaved, ls) ==
  IF Len(r.nodes) = 0 /\ Len(r.edges) = 0 THEN ls
  ELSE IF r.uuid = NoUuid \/ unsaved
       THEN setItem(ls, ScratchKey, scratchEntry(r.nodes, r.edges, r.tag))
       ELSE ls

\* the guard of the auto-save effect: !isLoading && !isTrulyInitial && currentUuid
autoSaveFires(r, unsaved, wasPristine) ==
  ~r.loading /\ ~(wasPristine /\ ~unsaved) /\ r.uuid # NoUuid

\* the state once the effects have settled: [unsaved, ls]
runEffects(r, graphSet) ==
  LET nowPristine == pristine /\ ~graphSet
      scratchDeps == graphSet \/ r.tag # currentTag \/ r.uuid # currentUuid
                       \/ r.unsaved # hasUnsavedChanges
      autoDeps == scratchDeps \/ r.loading # isLoading
      \* first pass
      ls1 == IF scratchDeps THEN scratchEffect(r, r.unsaved, r.ls) ELSE r.ls
      fires == autoDeps /\ autoSaveFires(r, r.unsaved, nowPristine)
      ls2 == IF fires THEN saveToLocalStorage(ls1, r.uuid, r.nodes, r.edges, r.tag)
             ELSE ls1
      \* second pass, when the auto-save effect turned hasUnsavedChanges on
      again == fires /\ ~r.unsaved
      ls3 == IF again THEN scratchEffect(r, TRUE, ls2) ELSE ls2
  IN [unsaved |-> IF fires THEN TRUE ELSE r.unsaved, ls |-> ls3]

\* the TodoList effect on [nodes, edges]: taskOrder is set to the computed
\* order whenever the two differ
taskOrderEffect(n, e, order) ==
  IF Len(n) = 0 THEN <<>>
  ELSE LET initialOrderedIds == IdsOf(getOrderedTasks(n, e))
       IN IF initialOrderedIds # order THEN initialOrderedIds ELSE order

\* the ids of the nodes at an edge whose two ends exist
connectedNodes(n, e) ==
  UNION {{e[k].source, e[k].target} :
           k \in {j \in 1..Len(e) : edgeCounts(n, e[j])}}

connectedNodesList(n, e) ==
  SelectSeq(n, LAMBDA node : node.id \in connectedNodes(n, e))

\* the two TodoList effects on [nodes, edges] of the list with the checkbox:
\* taskOrder is the order computed for the connected nodes, and what is not
\* connected is filtered out of it
connectedOrderEffect(n, e) ==
  LET newOrder == IdsOf(getOrderedTasks(connectedNodesList(n, e), e))
  IN SelectSeq(newOrder, LAMBDA nodeId : nodeId \in connectedNodes(n, e))

\* the ids of the nodes with data.completed
completedFromData(n) == {n[k].id : k \in {j \in 1..Len(n) : n[j].completed}}

\* mutant of completedEffect: the ids found are added to the set
completedEffect_OnlyAdds(prev, n) == prev \cup completedFromData(n)

\* the same effect's 'Update completed tasks': setCompletedTasks replaces the
\* set prev by the ids with data.completed
completedEffect(prev, n) == completedFromData(n)

\* a handler's state updates, followed by the effects
Render(r, graphSet) ==
  LET after == runEffects(r, graphSet)
  IN /\ nodes' = r.nodes
     /\ edges' = r.edges
     /\ pristine' = (pristine /\ ~graphSet)
     /\ currentTag' = r.tag
     /\ currentUuid' = r.uuid
     /\ isLoading' = r.loading
     /\ hasUnsavedChanges' = after.unsaved
     /\ localStorage' = after.ls
     /\ taskOrder' = IF graphSet THEN taskOrderEffect(r.nodes, r.edges, taskOrder)
                     ELSE taskOrder
     /\ connectedOrder' = IF graphSet THEN connectedOrderEffect(r.nodes, r.edges)
                          ELSE connectedOrder
     /\ completedTasks' = IF graphSet THEN completedEffect(completedTasks, r.nodes)
                          ELSE completedTasks

\* the React state as the handlers find it
Now ==
  [nodes |-> nodes, edges |-> edges, tag |-> currentTag, uuid |-> currentUuid,
   unsaved |-> hasUnsavedChanges, loading |-> isLoading, ls |-> localStorage]

\* a handler that replaces the graph and calls setHasUnsavedChanges(true)
EditGraph(n, e) ==
  /\ Render([Now EXCEPT !.nodes = n, !.edges = e, !.unsaved = TRUE], TRUE)
  /\ UNCHANGED <<orderVars, cleanupVars, authVars, outsideVars, restVars>>

\* a handler that replaces the graph and leaves hasUnsavedChanges alone
SetGraph(n, e) ==
  /\ Render([Now EXCEPT !.nodes = n, !.edges = e], TRUE)
  /\ UNCHANGED <<orderVars, cleanupVars, authVars, outsideVars, restVars>>

(***************************************************************************)
(* Canvas operations (FlowEditor).                                         *)
(***************************************************************************)
Positions == {0, 1}

nodeById(n, i) == n[CHOOSE k \in 1..Len(n) : n[k].id = i]

\* `${id++}`: the id of a node is the decimal numeral of the counter
idString(counter) == ToString(counter)

\* the numbers whose numerals the ids of a session can be
Numerals == 0..(MaxId + 1)

\* parseInt(node.id): <<number>>, or <<>> for NaN
parseInt(s) ==
  IF \E m \in Numerals : ToString(m) = s
  THEN <<CHOOSE m \in Numerals : ToString(m) = s>>
  ELSE <<>>

\* the reduce of getId: the largest numeric id among the nodes, from 0
maxNumericId(n) ==
  LET numIds == {parseInt(n[k].id)[1] : k \in {j \in 1..Len(n) : parseInt(n[j].id) # <<>>}}
                  \cup {0}
  IN CHOOSE m \in numIds : \A j \in numIds : j <= m

\* mutant of nextCounter: the counter is never raised over the ids present
nextCounter_NoCollisionCheck(n, counter) == counter

\* mutant of nextCounter: the counter is set from the ids present each time
nextCounter_FromMaxAlone(n, counter) == maxNumericId(n) + 1

\* getId: 'if (id <= maxId) id = maxId + 1'
nextCounter(n, counter) ==
  IF counter <= maxNumericId(n) THEN maxNumericId(n) + 1 ELSE counter

\* nds.filter(n => n.id !== target)
withoutNode(n, target) == SelectSeq(n, LAMBDA x : x.id # target)

\* mutant of withoutIncidentEdges: only the edges leaving the node are dropped
withoutIncidentEdges_SourceOnly(e, target) ==
  SelectSeq(e, LAMBDA x : x.source # target)

\* mutant of withoutIncidentEdges: the edges at the node are left in place
withoutIncidentEdges_Kept(e, target) == e

\* eds.filter(edge => edge.source !== target && edge.target !== target)
withoutIncidentEdges(e, target) ==
  SelectSeq(e, LAMBDA x : x.source # target /\ x.target # target)

\* addNode(type, position): the new node takes getId() and is appended
AddNode ==
  LET newId == nextCounter(nodes, id)
  IN /\ newId <= MaxId
     /\ id' = newId + 1
     /\ EditGraph(Append(nodes, NewNode(idString(newId))), edges)
     /\ UNCHANGED <<clipboard>>

\* onNodesChange with a position change of a draggable node
MoveNode ==
  \E k \in 1..Len(nodes), p \in Positions :
    /\ nodes[k].draggable
    /\ nodes[k].position # p
    /\ EditGraph([nodes EXCEPT ![k].position = p], edges)
    /\ UNCHANGED <<id, clipboard>>

\* a selected node removed on the canvas with the delete key: the library
\* hands onNodesChange the removal of the node, which has to be selectable and
\* deletable, and onEdgesChange the removal of the edges at it
CanvasRemove ==
  \E k \in 1..Len(nodes) :
    /\ nodes[k].selectable
    /\ nodes[k].deletable
    /\ EditGraph(withoutNode(nodes, nodes[k].id),
                 withoutIncidentEdges(edges, nodes[k].id))
    /\ UNCHANGED <<id, clipboard>>

\* onConnect: addEdge appends the connection unless it is already there
Connect ==
  \E s \in NodeIds(nodes), t \in NodeIds(nodes) :
    /\ nodeById(nodes, s).connectable
    /\ nodeById(nodes, t).connectable
    /\ Len(edges) < MaxCanvasEdges
    /\ IF \E k \in 1..Len(edges) : edges[k] = NewEdge(s, t)
       THEN /\ Render([Now EXCEPT !.unsaved = TRUE], FALSE)
            /\ UNCHANGED <<orderVars, cleanupVars, authVars, outsideVars, restVars>>
       ELSE EditGraph(nodes, Append(edges, NewEdge(s, t)))
    /\ UNCHANGED <<id, clipboard>>

\* onEdgesChange with the removal of the k-th edge
RemoveEdge ==
  \E k \in 1..Len(edges) :
    /\ EditGraph(nodes, SubSeq(edges, 1, k - 1) \o SubSeq(edges, k + 1, Len(edges)))
    /\ UNCHANGED <<id, clipboard>>

\* the pane menu's 'paste': the clipboard's node under a new id
Paste ==
  /\ clipboard # <<>>
  /\ LET newId == nextCounter(nodes, id)
     IN /\ newId <= MaxId
        /\ id' = newId + 1
        /\ SetGraph(Append(nodes, [clipboard[1].node EXCEPT !.id = idString(newId),
                                                           !.position = 0]),
                    edges)
  /\ clipboard' = IF clipboard[1].type = "cut" THEN <<>> ELSE clipboard

\* handleNodeMenuClick 'copy'
MenuCopy ==
  \E target \in NodeIds(nodes) :
    /\ clipboard' = <<[node |-> nodeById(nodes, target), type |-> "copy"]>>
    /\ clipboard' # clipboard
    /\ UNCHANGED <<orderVars, cleanupVars, authVars, outsideVars, nodes, edges, pristine, id, taskOrder,
                   listVars, syncVars>>

\* handleNodeMenuClick 'cut': the node goes to the clipboard and is removed
\* with the edges at it
MenuCut ==
  \E target \in NodeIds(nodes) :
    /\ clipboard' = <<[node |-> nodeById(nodes, target), type |-> "cut"]>>
    /\ SetGraph(withoutNode(nodes, target), withoutIncidentEdges(edges, target))
    /\ UNCHANGED <<id>>

\* handleNodeMenuClick 'break-sort': the edges at the node are removed
MenuBreakSort ==
  \E target \in NodeIds(nodes) :
    /\ SetGraph(nodes, withoutIncidentEdges(edges, target))
    /\ UNCHANGED <<id, clipboard>>

\* handleNodeMenuClick 'delete'
MenuDelete ==
  \E target \in NodeIds(nodes) :
    /\ SetGraph(withoutNode(nodes, target), withoutIncidentEdges(edges, target))
    /\ UNCHANGED <<id, clipboard>>

(***************************************************************************)
(* Todo list operations (TodoList).                                        *)
(***************************************************************************)
\* the delete confirmation's onOk: useReactFlow's setNodes and setEdges hand
\* the filtered lists to onNodesChange and onEdgesChange
ListDelete ==
  \E target \in NodeIds(nodes) :
    /\ EditGraph(withoutNode(nodes, target), withoutIncidentEdges(edges, target))
    /\ UNCHANGED <<id, clipboard>>

\* handleToggleComplete's update of the node: the four flags are the negation
\* of completed, data.completed is completed
toggledNode(node, completed) ==
  [node EXCEPT !.draggable = ~completed, !.selectable = ~completed,
               !.connectable = ~completed, !.deletable = ~completed,
               !.completed = completed]

\* the checkbox of a task: handleToggleComplete(id, e.target.checked), where
\* the box showed completedTasks.has(id); useReactFlow's setNodes hands the
\* mapped list to onNodesChange
ToggleComplete ==
  \E k \in 1..Len(nodes) :
    LET completed == nodes[k].id \notin completedTasks
    IN /\ EditGraph([nodes EXCEPT ![k] = toggledNode(nodes[k], completed)], edges)
       /\ UNCHANGED <<id, clipboard>>

\* mutant of arrayMove: the dragged item is written over the target
arrayMove_Overwrite(items, from, to) == [items EXCEPT ![to] = items[from]]

\* arrayMove(items, from, to) of @dnd-kit/sortable, on 1-based indices
arrayMove(items, from, to) ==
  LET without == SubSeq(items, 1, from - 1) \o SubSeq(items, from + 1, Len(items))
  IN SubSeq(without, 1, to - 1) \o <<items[from]>> \o SubSeq(without, to, Len(without))

\* 'over' of a drop outside every item
NoOver == ""

\* handleDragEnd for the item 'active' dropped on 'over'
handleDragEnd(active, over) ==
  /\ taskOrder' = IF over # NoOver /\ active # over
                  THEN arrayMove(taskOrder, IndexOf(taskOrder, active),
                                 IndexOf(taskOrder, over))
                  ELSE taskOrder
  /\ UNCHANGED <<orderVars, cleanupVars, authVars, outsideVars, nodes, edges, pristine,
                 id, clipboard, listVars, syncVars>>

\* a drag in the sorted section: its items are the entries of taskOrder
DragEnd ==
  \E active \in Range(taskOrder), over \in Range(taskOrder) \cup {NoOver} :
    handleDragEnd(active, over)

\* the two sections of the list, as ids: the entries of taskOrder that are
\* nodes, and the nodes that are not in taskOrder
sortedTasks(order, n) == SelectSeq(order, LAMBDA nodeId : nodeId \in NodeIds(n))

unsortedTasks(order, n) == SelectSeq(IdsOf(n), LAMBDA nodeId : nodeId \notin Range(order))

(***************************************************************************)
(* The remote store (the Notion-backed API) as the editor sees it.         *)
(***************************************************************************)
\* the identifiers of the documents saved before the session
DocIds == {"X", "Y"}

Tags == {DefaultTag, "plan"}

SavedDoc(n, e, tag, uuid) == [nodes |-> n, edges |-> e, tag |-> tag, uuid |-> uuid]

\* the documents in the store when the session starts
InitialRemote ==
  [u \in DocIds |->
     IF u = "X"
     THEN SavedDoc(<<NewNode("1"), NewNode("2")>>, <<NewEdge("2", "1")>>, "plan", u)
     ELSE SavedDoc(<<NewNode("1")>>, <<>>, DefaultTag, u)]

(***************************************************************************)
(* Session changes and remote operations (FlowEditor).                     *)
(***************************************************************************)
\* the '新建' button: an empty graph under a newly generated identifier
NewCanvas ==
  /\ isAuthenticated
  /\ uuidsIssued <= MaxFresh
  /\ uuidsIssued' = uuidsIssued + 1
  /\ Render([Now EXCEPT !.nodes = <<>>, !.edges = <<>>, !.tag = DefaultTag,
                        !.uuid = generateUuid(uuidsIssued), !.unsaved = FALSE],
            TRUE)
  /\ UNCHANGED <<orderVars, cleanupVars, authVars, outsideVars, id, clipboard, isSaving, isAuthenticated,
                 showLoginModal, flowcharts, remote, loads, saves, deletes,
                 notice, loadFlow>>

\* the header's tag input: setCurrentTag
EditTag ==
  \E tag \in Tags :
    /\ isAuthenticated
    /\ tag # currentTag
    /\ Render([Now EXCEPT !.tag = tag], FALSE)
    /\ UNCHANGED <<orderVars, cleanupVars, authVars, outsideVars, id, clipboard, isSaving, isAuthenticated,
                   showLoginModal, flowcharts, uuidsIssued, remote, loads,
                   saves, deletes, notice, loadFlow>>

\* loadFlowchart(uuid) up to its fetch.  Both callers (a click on a listed
\* document, the effect on the URL's talk parameter) call it for an
\* identifier other than the current one.
LoadFlowchart ==
  \E uuid \in DocIds \cup flowcharts :
    /\ uuid # currentUuid
    /\ IF ~isAuthenticated
       THEN /\ showLoginModal' = TRUE
            /\ refusedLoads' = refusedLoads \cup {uuid}
            /\ UNCHANGED <<orderVars, cleanupVars, outsideVars, graphVars, currentTag,
                           currentUuid, hasUnsavedChanges, isLoading, isSaving,
                           isAuthenticated, flowcharts, uuidsIssued, localStorage,
                           remote, loads, saves, deletes, notice, loadFlow,
                           storedToken, talkParam, mounted>>
       ELSE /\ Len(loads) < MaxLoads
            /\ LET localData == loadFromLocalStorage(localStorage, uuid)
                   r0 == [Now EXCEPT !.loading = TRUE, !.unsaved = FALSE,
                                     !.ls = afterLoadFromLocalStorage(localStorage, uuid)]
                   r == IF localData # <<>>
                        THEN [r0 EXCEPT !.nodes = localData[1].nodes,
                                        !.edges = localData[1].edges,
                                        !.tag = localData[1].tag,
                                        !.uuid = uuid]
                        ELSE r0
               IN Render(r, localData # <<>>)
            \* the values the callback closed over, read when the response
            \* comes; session: the identifier that is current once the call has
            \* returned, kept for the properties about late responses
            /\ loads' = Append(loads, [uuid |-> uuid,
                                       nodesLength |-> Len(nodes),
                                       edgesLength |-> Len(edges),
                                       currentTag |-> currentTag,
                                       session |-> currentUuid'])
            /\ UNCHANGED <<orderVars, cleanupVars, authVars, outsideVars, id, clipboard, isSaving, isAuthenticated,
                           showLoginModal, flowcharts, uuidsIssued, remote, saves,
                           deletes, notice>>
            /\ loadFlow' = "load: loading"

removeAt(s, k) == SubSeq(s, 1, k - 1) \o SubSeq(s, k + 1, Len(s))

\* 'Only update state if fetched data is different from current state':
\* the lengths and the tag the callback closed over against the fetched ones
loadApplies(req, data) ==
  \/ req.nodesLength # Len(data.nodes)
  \/ req.edgesLength # Len(data.edges)
  \/ req.currentTag # data.tag

\* the load response is OK: the else branch of 'if (!response.ok)'
LoadResponseOk ==
  \E k \in 1..Len(loads) :
    LET req == loads[k] IN
    /\ req.uuid \in DOMAIN remote
    /\ LET data == remote[req.uuid]
           r1 == IF loadApplies(req, data)
                 THEN [Now EXCEPT !.nodes = data.nodes, !.edges = data.edges,
                                  !.tag = data.tag,
                                  !.ls = saveToLocalStorage(localStorage, req.uuid,
                                                            data.nodes, data.edges,
                                                            data.tag)]
                 ELSE Now
           r == [r1 EXCEPT !.uuid = data.uuid, !.unsaved = FALSE, !.loading = FALSE,
                           !.ls = removeItem(r1.ls, ScratchKey)]
       IN Render(r, loadApplies(req, data))
    /\ loads' = removeAt(loads, k)
    /\ UNCHANGED <<orderVars, cleanupVars, authVars, outsideVars, id, clipboard, isSaving, isAuthenticated,
                   showLoginModal, flowcharts, uuidsIssued, remote, saves, deletes,
                   notice>>
    /\ loadFlow' = "load: loaded"

\* the message the failure branches leave under the key 'loadFlow': a
\* response that is not OK shows the warning when a valid cache entry exists
\* and throws otherwise; the catch block shows the error when none exists
loadFailureMessage(thrown, cached, shown) ==
  IF cached THEN (IF thrown THEN shown ELSE "load: local version shown")
  ELSE "load: failed"

\* the load response is not OK, or the fetch throws: a message, and the
\* finally block
LoadResponseFailed ==
  \E k \in 1..Len(loads), thrown \in BOOLEAN :
    LET req == loads[k] IN
    /\ Render([Now EXCEPT !.loading = FALSE,
                          !.ls = afterLoadFromLocalStorage(localStorage, req.uuid)],
              FALSE)
    /\ loadFlow' = loadFailureMessage(thrown,
                                      loadFromLocalStorage(localStorage, req.uuid) # <<>>,
                                      loadFlow)
    /\ loads' = removeAt(loads, k)
    /\ UNCHANGED <<orderVars, cleanupVars, authVars, outsideVars, id, clipboard, isSaving, isAuthenticated,
                   showLoginModal, flowcharts, uuidsIssued, remote, saves, deletes,
                   notice>>

\* mutant of saveRejected: the tag is not checked
saveRejected_TagUnchecked(tag, n) == Len(n) = 0

\* confirmSave's validation: '!tag' or an empty canvas
saveRejected(tag, n) == tag = "" \/ Len(n) = 0

\* confirmSave(tag) up to its fetch
ConfirmSave ==
  \E tag \in Tags \cup {""} :
    /\ ~isSaving
    /\ IF ~isAuthenticated
       THEN /\ showLoginModal' = TRUE
            /\ notice' = "save: log in first"
            /\ UNCHANGED <<isSaving, saves, uuidsIssued>>
       ELSE IF saveRejected(tag, nodes)
       THEN /\ notice' = IF tag = "" THEN "save: the tag is empty"
                         ELSE "save: the canvas is empty"
            /\ UNCHANGED <<isSaving, saves, uuidsIssued, showLoginModal>>
       ELSE /\ isSaving' = TRUE
            /\ saves' = Append(saves,
                               [uuid |-> IF currentUuid = NoUuid
                                         THEN generateUuid(uuidsIssued)
                                         ELSE currentUuid,
                                nodes |-> nodes, edges |-> edges, tag |-> tag,
                                currentUuid |-> currentUuid])
            /\ uuidsIssued' = IF currentUuid = NoUuid THEN uuidsIssued + 1
                              ELSE uuidsIssued
            /\ notice' = "save: saving"
            /\ UNCHANGED <<showLoginModal>>
    /\ UNCHANGED <<orderVars, cleanupVars, authVars, outsideVars, graphVars, currentTag, currentUuid, hasUnsavedChanges,
                   isLoading, isAuthenticated, flowcharts, localStorage, remote,
                   loads, deletes, loadFlow>>

\* mutant of saveSucceeded: a response that is not OK is taken for a success
saveSucceeded_IgnoresStatus(ok) == TRUE

\* 'if (!response.ok) throw': the rest of the try block runs on an OK response
saveSucceeded(ok) == ok

\* confirmSave from the response on.  ok: the store took the document and
\* answered OK; otherwise the response is not OK or the fetch threw.
saveContinuation(req, ok, responded) ==
  LET r0 == IF responded /\ req.currentUuid = NoUuid
            THEN [Now EXCEPT !.uuid = req.uuid] ELSE Now
  IN IF saveSucceeded(ok)
     THEN [r0 EXCEPT !.unsaved = FALSE,
                     !.ls = clearFromLocalStorage(r0.ls, req.uuid)]
     ELSE r0

SaveResponseOk ==
  /\ saves # <<>>
  /\ LET req == Head(saves) IN
     /\ remote' = setItem(remote, req.uuid,
                          SavedDoc(req.nodes, req.edges, req.tag, req.uuid))
     /\ Render(saveContinuation(req, TRUE, TRUE), FALSE)
     \* the list of saved documents is fetched again; the fetch may fail
     /\ flowcharts' \in {DOMAIN remote', flowcharts}
  /\ saves' = Tail(saves)
  /\ isSaving' = FALSE
  /\ notice' = "save: saved"
  /\ UNCHANGED <<orderVars, cleanupVars, authVars, outsideVars, id, clipboard, isAuthenticated, showLoginModal,
                 uuidsIssued, loads, deletes, loadFlow>>

SaveResponseFailed ==
  /\ saves # <<>>
  /\ \E responded \in BOOLEAN :
       Render(saveContinuation(Head(saves), FALSE, responded), FALSE)
  /\ saves' = Tail(saves)
  /\ isSaving' = FALSE
  /\ notice' = "save: failed"
  /\ UNCHANGED <<orderVars, cleanupVars, authVars, outsideVars, id, clipboard, isAuthenticated, showLoginModal,
                 flowcharts, uuidsIssued, remote, loads, deletes, loadFlow>>

\* confirmDeleteFlowchart for a listed document, up to its fetch
ConfirmDelete ==
  \E uuid \in flowcharts :
    /\ deletes = <<>>
    /\ IF ~isAuthenticated
       THEN /\ showLoginModal' = TRUE
            /\ UNCHANGED deletes
       ELSE /\ deletes' = Append(deletes, [uuid |-> uuid, currentUuid |-> currentUuid])
            /\ UNCHANGED showLoginModal
    /\ UNCHANGED <<orderVars, cleanupVars, authVars, outsideVars, graphVars, currentTag,
                   currentUuid, hasUnsavedChanges, isLoading, isSaving,
                   isAuthenticated, flowcharts, uuidsIssued, localStorage, remote,
                   loads, saves, notice, loadFlow>>

\* the delete response is OK
DeleteResponseOk ==
  /\ deletes # <<>>
  /\ LET req == Head(deletes)
         open == req.uuid = req.currentUuid
         ls0 == clearFromLocalStorage(localStorage, req.uuid)
     IN /\ req.uuid \in DOMAIN remote
        /\ open => uuidsIssued <= MaxFresh
        /\ remote' = removeItem(remote, req.uuid)
        /\ flowcharts' = flowcharts \ {req.uuid}
        /\ IF open
           THEN /\ Render([Now EXCEPT !.nodes = <<>>, !.edges = <<>>,
                                      !.tag = DefaultTag,
                                      !.uuid = generateUuid(uuidsIssued),
                                      !.unsaved = FALSE, !.ls = ls0], TRUE)
                /\ uuidsIssued' = uuidsIssued + 1
           ELSE /\ Render([Now EXCEPT !.ls = ls0], FALSE)
                /\ UNCHANGED uuidsIssued
  /\ deletes' = Tail(deletes)
  /\ UNCHANGED <<orderVars, cleanupVars, authVars, outsideVars, id, clipboard, isSaving, isAuthenticated,
                 showLoginModal, loads, saves, notice, loadFlow>>

\* the delete response is not OK, or the fetch throws
DeleteResponseFailed ==
  /\ deletes # <<>>
  /\ deletes' = Tail(deletes)
  /\ UNCHANGED <<orderVars, cleanupVars, authVars, outsideVars, graphVars, currentTag, currentUuid, hasUnsavedChanges,
                 isLoading, isSaving, isAuthenticated, showLoginModal, flowcharts,
                 uuidsIssued, localStorage, remote, loads, saves, notice, loadFlow>>

\* LoginModal's onSuccess: login(token); the list of saved documents is
\* fetched once isAuthenticated turns true (the fetch may fail)
Login ==
  /\ ~isAuthenticated
  /\ showLoginModal
  /\ isAuthenticated' = TRUE
  /\ showLoginModal' = FALSE
  /\ flowcharts' \in {DOMAIN remote, flowcharts}
  /\ storedToken' = "fresh"
  /\ UNCHANGED <<orderVars, cleanupVars, outsideVars, graphVars, currentTag,
                 currentUuid, hasUnsavedChanges, isLoading, isSaving, uuidsIssued,
                 localStorage, remote, loads, saves, deletes, notice, loadFlow,
                 talkParam, mounted, refusedLoads>>

\* the '退出' button: logout(); the list is emptied and the modal opens
Logout ==
  /\ isAuthenticated
  /\ isAuthenticated' = FALSE
  /\ showLoginModal' = TRUE
  /\ flowcharts' = {}
  /\ storedToken' = "none"
  /\ UNCHANGED <<orderVars, cleanupVars, outsideVars, graphVars, currentTag,
                 currentUuid, hasUnsavedChanges, isLoading, isSaving, uuidsIssued,
                 localStorage, remote, loads, saves, deletes, notice, loadFlow,
                 talkParam, mounted, refusedLoads>>

\* time passes: the stored token gets older than TOKEN_EXPIRY.  Nothing
\* reads the token's age after the mount, so no state of the page changes.
TokenExpires ==
  /\ storedToken = "fresh"
  /\ storedToken' = "expired"
  /\ UNCHANGED <<orderVars, cleanupVars, outsideVars, graphVars, syncVars,
                 talkParam, mounted, refusedLoads>>

(***************************************************************************)
(* The editor after its first render and mount effects, in a browser whose *)
(* cache holds no entry of the editor.                                     *)
(***************************************************************************)
NoRun == [inDegree |-> <<>>, adj |-> <<>>, queue |-> <<>>, sortedList |-> <<>>]

OrderIdle ==
  /\ oNodes = <<>>
  /\ oEdges = <<>>
  /\ oState = NoRun
  /\ oResult = <<>>
  /\ oPc = "idle"
  /\ oPushes = <<>>
  /\ oIterations = 0

\* the scratch entry an earlier session left in the cache
EarlierScratch ==
  scratchEntry(<<NewNode("1"), NewNode("2")>>, <<NewEdge("2", "1")>>, DefaultTag)

\* tokenValid: what checkTokenValidity finds in the browser; unsavedData: the
\* scratch entry the mount effect finds, <<entry>> or <<>>
EditorInit(tokenValid, unsavedData) ==
  /\ nodes = IF unsavedData # <<>> THEN unsavedData[1].nodes ELSE <<>>
  /\ edges = IF unsavedData # <<>> THEN unsavedData[1].edges ELSE <<>>
  /\ pristine = (unsavedData = <<>>)
  /\ id = 1
  /\ clipboard = <<>>
  /\ taskOrder = taskOrderEffect(nodes, edges, <<>>)
  /\ connectedOrder = connectedOrderEffect(nodes, edges)
  /\ completedTasks = completedFromData(nodes)
  /\ currentTag = IF unsavedData # <<>> THEN unsavedData[1].tag ELSE DefaultTag
  /\ currentUuid = generateUuid(0)
  /\ uuidsIssued = 1
  /\ hasUnsavedChanges = (unsavedData # <<>>)
  /\ isLoading = FALSE
  /\ isSaving = FALSE
  /\ isAuthenticated = tokenValid
  /\ showLoginModal = ~tokenValid
  \* checkTokenValidity has removed a token it found too old
  /\ storedToken = IF tokenValid THEN "fresh" ELSE "none"
  /\ talkParam = ""
  /\ mounted = TRUE
  /\ refusedLoads = {}
  /\ remote = InitialRemote
  /\ flowcharts = IF tokenValid THEN DOMAIN remote ELSE {}
  \* the cleanup on mount drops the entry found; the effects of the next
  \* render write the scratch entry and the entry of the new identifier
  /\ localStorage =
       IF unsavedData # <<>>
       THEN saveToLocalStorage(
              setItem(<<>>, ScratchKey, scratchEntry(nodes, edges, currentTag)),
              currentUuid, nodes, edges, currentTag)
       ELSE <<>>
  /\ loads = <<>>
  /\ saves = <<>>
  /\ deletes = <<>>
  /\ notice = ""
  /\ loadFlow = ""

(***************************************************************************)
(* cleanupLocalStorage, run once on mount, on the storage as the browser   *)
(* keeps it: keys and texts.  A key is the sequence of its parts; a text   *)
(* is "empty" (the empty string), "garbage" (not JSON), "null" (the JSON   *)
(* null) or "object" (a JSON object, with or without a numeric savedAt).   *)
(***************************************************************************)
LOCAL_STORAGE_PREFIX == <<"visual-todoflow", ":">>

CLEANUP_INTERVAL_MS == 7 * 24 * 60 * 60 * 1000

\* String.prototype.startsWith
startsWith(key, prefix) ==
  Len(key) >= Len(prefix) /\ SubSeq(key, 1, Len(prefix)) = prefix

JsonNull == [null |-> TRUE]

JsonNumber == [number |-> TRUE]

\* JSON.parse: <<value>>, or <<>> when it throws.  An object is the record
\* of its properties, each <<>> when absent.
JSONparse(item) ==
  CASE item.kind = "object" -> <<[f \in DOMAIN item \ {"kind"} |-> item[f]]>>
    [] item.kind = "null" -> <<JsonNull>>
    [] item.kind = "number" -> <<JsonNumber>>
    [] OTHER -> <<>>

\* 'parsedData.savedAt' as a condition: a number other than 0
truthy(savedAt) == savedAt # <<>> /\ savedAt[1] # 0

\* mutant of cleanupRemoves: only the age of a stamped entry is looked at
cleanupRemoves_AgeOnly(item, now) ==
  /\ item.kind = "object"
  /\ truthy(item.savedAt)
  /\ now - item.savedAt[1] > CLEANUP_INTERVAL_MS

\* the body of the loop for a key under the prefix: is the key pushed on
\* keysToRemove
cleanupRemoves(item, now) ==
  IF item.kind = "empty" THEN TRUE                \* 'if (item)' fails
  ELSE LET parsed == JSONparse(item) IN
       IF parsed = <<>> THEN TRUE                 \* JSON.parse throws
       ELSE IF parsed[1] = JsonNull THEN TRUE     \* reading .savedAt throws
       ELSE LET savedAt == parsed[1].savedAt IN
            IF truthy(savedAt) /\ now - savedAt[1] > CLEANUP_INTERVAL_MS
            THEN TRUE
            ELSE ~truthy(savedAt)

keysToRemove(store, now) ==
  {key \in DOMAIN store :
     startsWith(key, LOCAL_STORAGE_PREFIX) /\ cleanupRemoves(store[key], now)}

\* the storage once every key of keysToRemove has been removed
cleanupLocalStorage(store, now) ==
  [key \in DOMAIN store \ keysToRemove(store, now) |-> store[key]]

\* the cleanup effect of the mount
CleanupOnMount ==
  /\ cleanupPc = "mount"
  /\ rawStorage' = cleanupLocalStorage(rawStorage, startupTime)
  /\ itemsRemoved' = Cardinality(keysToRemove(rawStorage, startupTime))
  /\ cleanupPc' = "done"
  /\ UNCHANGED <<orderVars, graphVars, syncVars, startupTime, authVars, outsideVars>>

\* 'key' in parsedData, for a parsed object
hasProperty(parsedData, key) == key \in DOMAIN parsedData /\ parsedData[key] # <<>>

\* parsedData && typeof parsedData === 'object' &&
\* ('nodes' in parsedData || 'edges' in parsedData) && 'savedAt' in parsedData
looksLikeOurData(parsedData) ==
  /\ parsedData # JsonNull
  /\ parsedData # JsonNumber
  /\ hasProperty(parsedData, "nodes") \/ hasProperty(parsedData, "edges")
  /\ hasProperty(parsedData, "savedAt")

storageKey(uuid) == LOCAL_STORAGE_PREFIX \o <<uuid>>

\* loadFromLocalStorage(uuid) on the stored texts: [value, store], value the
\* <<parsedData>> returned or <<>> for null, store the storage afterwards
loadFromLocalStorageText(store, uuid) ==
  LET key == storageKey(uuid)
      absent == [value |-> <<>>, store |-> store]
      removed == [value |-> <<>>,
                  store |-> [k \in DOMAIN store \ {key} |-> store[k]]]
  IN IF uuid = NoUuid THEN absent                       \* 'if (!uuid)'
     ELSE IF key \notin DOMAIN store THEN absent        \* getItem gives null
     ELSE IF store[key].kind = "empty" THEN absent      \* 'if (!item)'
     ELSE LET parsed == JSONparse(store[key]) IN
          IF parsed = <<>> THEN removed                 \* the catch block
          ELSE IF looksLikeOurData(parsed[1])
               THEN [value |-> parsed, store |-> store]
               ELSE removed

\* before any call
NotCalled == [uuid |-> NoUuid, value |-> <<>>]

\* the uuids a call is made with
CallUuids == {"X", "Y", "Z", NoUuid}

\* one call of loadFromLocalStorage
LoadFromStorage ==
  \E uuid \in CallUuids :
    LET out == loadFromLocalStorageText(rawStorage, uuid)
    IN /\ lsReturned' = [uuid |-> uuid, value |-> out.value]
       /\ rawStorage' = out.store
       /\ UNCHANGED <<orderVars, graphVars, syncVars, authVars, routeVars,
                      startupTime, cleanupPc, itemsRemoved>>

\* no request has reached the save route
RouteIdle ==
  /\ routePc = "idle"
  /\ routeBody = <<>>
  /\ routePages = {}
  /\ routePromises = <<>>
  /\ routeResponse = <<>>

\* in the other specifications the cleanup is behind; so is what is outside
\* the editor
CleanupIdle ==
  /\ rawStorage = <<>>
  /\ startupTime = 0
  /\ cleanupPc = "done"
  /\ itemsRemoved = 0
  /\ lsReturned = NotCalled
  /\ RouteIdle

(***************************************************************************)
(* SpecOrder.                                                              *)
(***************************************************************************)
\* ids an edge end may name: 0 is never the id of a node
EndIds == 0..MaxNodes

OrderNodeLists ==
  UNION {{[i \in 1..n |-> NewNode(p[i])] : p \in Perms(1..n)} : n \in 0..MaxNodes}

OrderEdgeLists ==
  {[i \in 1..Len(s) |-> NewEdge(s[i][1], s[i][2])] :
     s \in SeqsUpTo(EndIds \X EndIds, MaxEdges)}

OrderInit ==
  /\ oNodes \in OrderNodeLists
  /\ oEdges \in OrderEdgeLists
  /\ oState = NoRun
  /\ oResult = <<>>
  /\ oPc = "start"
  /\ oPushes = [v \in NodeIds(oNodes) |-> 0]
  /\ oIterations = 0
  /\ CleanupIdle
  /\ EditorInit(FALSE, <<>>)

\* lines up to the while loop: the maps are filled and the queue is seeded
OrderStart ==
  /\ oPc = "start"
  /\ oState' = kahnStart(oNodes, oEdges)
  /\ oPushes' = [v \in NodeIds(oNodes) |-> Count(oState'.queue, v)]
  /\ oPc' = "loop"
  /\ UNCHANGED <<oNodes, oEdges, oResult, oIterations, graphVars, syncVars, cleanupVars,
               authVars, outsideVars>>

\* one pass of while (queue.length > 0)
OrderDequeue ==
  /\ oPc = "loop"
  /\ oState.queue # <<>>
  /\ oState' = dequeueStep(oNodes, oState)
  /\ LET old == Len(oState.queue) - 1
         pushed == SubSeq(oState'.queue, old + 1, Len(oState'.queue))
     IN oPushes' = [v \in NodeIds(oNodes) |-> oPushes[v] + Count(pushed, v)]
  /\ oIterations' = oIterations + 1
  /\ UNCHANGED <<oNodes, oEdges, oResult, oPc, graphVars, syncVars, cleanupVars,
               authVars, outsideVars>>

\* the queue is empty: the unvisited nodes are appended and the list returned
OrderFinish ==
  /\ oPc = "loop"
  /\ oState.queue = <<>>
  /\ oResult' = kahnResult(oNodes, oState.sortedList)
  /\ oPc' = "done"
  /\ UNCHANGED <<oNodes, oEdges, oState, oPushes, oIterations, graphVars, syncVars, cleanupVars,
               authVars, outsideVars>>

OrderNext == OrderStart \/ OrderDequeue \/ OrderFinish

SpecOrder == OrderInit /\ [][OrderNext]_vars

\* the run is a single synchronous call: a step that can be taken is taken
SpecOrderLive == OrderInit /\ [][OrderNext]_vars /\ WF_vars(OrderNext)


(***************************************************************************)
(* SpecEditor: the canvas menus and the todo list's delete, in a session   *)
(* that starts empty or from the scratch entry of an earlier session.      *)
(***************************************************************************)
EditorStart ==
  /\ OrderIdle
  /\ CleanupIdle
  /\ \E unsavedData \in {<<>>, <<EarlierScratch>>} : EditorInit(FALSE, unsavedData)

EditorNext ==
  \/ AddNode \/ Connect \/ RemoveEdge \/ Paste
  \/ MenuCopy \/ MenuCut \/ MenuBreakSort \/ MenuDelete
  \/ ListDelete

SpecEditor == EditorStart /\ [][EditorNext]_vars

(***************************************************************************)
(* SpecTodo: the todo list's manual order while the graph is edited.       *)
(***************************************************************************)
TodoStart == OrderIdle /\ CleanupIdle /\ EditorInit(FALSE, <<>>)

TodoNext == AddNode \/ MoveNode \/ Connect \/ RemoveEdge \/ DragEnd

SpecTodo == TodoStart /\ [][TodoNext]_vars

(***************************************************************************)
(* SpecLoad: documents loaded from the remote store while the session      *)
(* changes under the requests in flight.                                   *)
(***************************************************************************)
LoadStart == OrderIdle /\ CleanupIdle /\ EditorInit(TRUE, <<>>)

LoadNext ==
  \/ AddNode \/ NewCanvas
  \/ LoadFlowchart \/ LoadResponseOk \/ LoadResponseFailed

SpecLoad == LoadStart /\ [][LoadNext]_vars

(***************************************************************************)
(* SpecSave: the graph saved to the remote store, also while a load that   *)
(* will fail is outstanding.                                               *)
(***************************************************************************)
SaveStart == OrderIdle /\ CleanupIdle /\ \E tokenValid \in BOOLEAN : EditorInit(tokenValid, <<>>)

SaveNext ==
  \/ AddNode \/ Login
  \/ ConfirmSave \/ SaveResponseOk \/ SaveResponseFailed
  \/ LoadFlowchart \/ LoadResponseFailed

SpecSave == SaveStart /\ [][SaveNext]_vars

(***************************************************************************)
(* SpecDelete: saved documents deleted from the list while documents are   *)
(* loaded.                                                                 *)
(***************************************************************************)
DeleteStart == OrderIdle /\ CleanupIdle /\ EditorInit(TRUE, <<>>)

DeleteNext ==
  \/ AddNode
  \/ LoadFlowchart \/ LoadResponseOk \/ LoadResponseFailed
  \/ ConfirmDelete \/ DeleteResponseOk \/ DeleteResponseFailed

SpecDelete == DeleteStart /\ [][DeleteNext]_vars

(***************************************************************************)
(* SpecCache: the graph and the tag edited in a logged-in session; the     *)
(* auto-save effect keeps the cache.                                       *)
(***************************************************************************)
CacheStart == OrderIdle /\ CleanupIdle /\ EditorInit(TRUE, <<>>)

CacheNext ==
  \/ AddNode \/ MoveNode \/ Connect \/ RemoveEdge \/ MenuDelete
  \/ EditTag

SpecCache == CacheStart /\ [][CacheNext]_vars

(***************************************************************************)
(* SpecCleanup: cleanupLocalStorage applied to a storage drawn from the    *)
(* keys and texts below, at a time drawn around the 7 days.                *)
(***************************************************************************)
StoredKeys ==
  { LOCAL_STORAGE_PREFIX \o <<"X">>, LOCAL_STORAGE_PREFIX \o <<"new">>,
    <<"visual-todoflow">>, <<"auth_token">> }

\* the times of saving: 0, and MaxSkew around 7 days ago and around now
SavedTimes(now) ==
  {0} \cup {now - CLEANUP_INTERVAL_MS + d : d \in (0 - MaxSkew)..MaxSkew}
      \cup {now + d : d \in (0 - MaxSkew)..MaxSkew}

StoredTexts(now) ==
  {[kind |-> "empty", savedAt |-> <<>>], [kind |-> "garbage", savedAt |-> <<>>],
   [kind |-> "null", savedAt |-> <<>>], [kind |-> "object", savedAt |-> <<>>]}
    \cup {[kind |-> "object", savedAt |-> <<t>>] : t \in SavedTimes(now)}

CleanupStart ==
  /\ OrderIdle
  /\ EditorInit(FALSE, <<>>)
  /\ startupTime = CLEANUP_INTERVAL_MS + MaxSkew + 1
  /\ \E keys \in SUBSET StoredKeys : rawStorage \in [keys -> StoredTexts(startupTime)]
  /\ cleanupPc = "mount"
  /\ itemsRemoved = 0
  /\ lsReturned = NotCalled
  /\ RouteIdle

CleanupNext == CleanupOnMount

SpecCleanup == CleanupStart /\ [][CleanupNext]_vars

(***************************************************************************)
(* SpecAuth: load, save and delete while the user logs in and out and the  *)
(* stored token ages.                                                      *)
(***************************************************************************)
AuthStart ==
  OrderIdle /\ CleanupIdle /\ \E tokenValid \in BOOLEAN : EditorInit(tokenValid, <<>>)

AuthNext ==
  \/ AddNode \/ Login \/ Logout \/ TokenExpires
  \/ LoadFlowchart \/ LoadResponseFailed
  \/ ConfirmSave \/ SaveResponseFailed
  \/ ConfirmDelete \/ DeleteResponseFailed

SpecAuth == AuthStart /\ [][AuthNext]_vars

(***************************************************************************)
(* SpecStart: the session from its first render on, with or without the    *)
(* talk parameter in the URL and with a token that is missing, fresh or    *)
(* too old; then logins, loads and edits.  The mount effects and the       *)
(* responses of the server come by themselves; what the user does may      *)
(* never happen.                                                           *)
(***************************************************************************)
\* the first render: every useState at its initial value, no effect run yet
FirstRender ==
  /\ nodes = <<>>
  /\ edges = <<>>
  /\ pristine = TRUE
  /\ id = 1
  /\ clipboard = <<>>
  /\ taskOrder = <<>>
  /\ connectedOrder = <<>>
  /\ completedTasks = {}
  /\ currentTag = DefaultTag
  /\ currentUuid = generateUuid(0)
  /\ uuidsIssued = 1
  /\ hasUnsavedChanges = FALSE
  /\ isLoading = FALSE
  /\ isSaving = FALSE
  /\ isAuthenticated = FALSE
  /\ showLoginModal = FALSE
  /\ storedToken \in {"none", "fresh", "expired"}
  /\ talkParam \in DocIds \cup {""}
  /\ mounted = FALSE
  /\ refusedLoads = {}
  /\ remote = InitialRemote
  /\ flowcharts = {}
  /\ localStorage = <<>>
  /\ loads = <<>>
  /\ saves = <<>>
  /\ deletes = <<>>
  /\ notice = ""
  /\ loadFlow = ""

\* the effects of the mount and of the render they cause.  useAuth's effect
\* sets the auth state from checkTokenValidity, which drops a token too old;
\* the searchParams effect calls the loadFlowchart of the first render, in
\* which isAuthenticated is false, for the talk parameter; the login-modal
\* effect leaves the modal open unless the auth state has turned true; the
\* list is fetched when it has.
Mount ==
  /\ ~mounted
  /\ mounted' = TRUE
  /\ storedToken' = IF storedToken = "expired" THEN "none" ELSE storedToken
  /\ isAuthenticated' = (storedToken = "fresh")
  /\ showLoginModal' = (storedToken # "fresh")
  /\ refusedLoads' = IF talkParam # "" /\ talkParam # currentUuid
                     THEN refusedLoads \cup {talkParam} ELSE refusedLoads
  /\ flowcharts' = IF storedToken = "fresh" THEN DOMAIN remote ELSE {}
  /\ UNCHANGED <<orderVars, cleanupVars, outsideVars, graphVars, currentTag,
                 currentUuid, hasUnsavedChanges, isLoading, isSaving, uuidsIssued,
                 localStorage, remote, loads, saves, deletes, notice, loadFlow,
                 talkParam>>

StartInit == OrderIdle /\ CleanupIdle /\ FirstRender

StartNext ==
  \/ Mount
  \/ (mounted /\ AddNode)
  \/ (mounted /\ Login)
  \/ (mounted /\ LoadFlowchart)
  \/ LoadResponseOk
  \/ LoadResponseFailed

SpecStart ==
  /\ StartInit
  /\ [][StartNext]_vars
  /\ WF_vars(Mount)
  /\ WF_vars(LoadResponseOk \/ LoadResponseFailed)

(***************************************************************************)
(* SpecShape: loadFromLocalStorage called on a storage that holds, under   *)
(* the keys of two entries, texts of every kind: empty, not JSON, the JSON *)
(* null, a JSON number, and objects with any of nodes, edges and savedAt.  *)
(***************************************************************************)
ShapeTexts ==
  {[kind |-> k, nodes |-> <<>>, edges |-> <<>>, savedAt |-> <<>>] :
     k \in {"empty", "garbage", "null", "number"}}
    \cup {[kind |-> "object", nodes |-> n, edges |-> e, savedAt |-> t] :
            n \in {<<>>, <<<<NewNode("1")>>>>}, e \in {<<>>, <<<<>>>>},
            t \in {<<>>, <<0>>}}

ShapeStart ==
  /\ OrderIdle
  /\ EditorInit(FALSE, <<>>)
  /\ RouteIdle
  /\ startupTime = 0
  /\ cleanupPc = "done"
  /\ itemsRemoved = 0
  /\ lsReturned = NotCalled
  /\ \E keys \in SUBSET {storageKey("X"), storageKey("Y")} :
       rawStorage \in [keys -> ShapeTexts]

ShapeNext == LoadFromStorage

SpecShape == ShapeStart /\ [][ShapeNext]_vars

(***************************************************************************)
(* POST /api/notion/save: the pages of the database are queried, the nodes *)
(* of the request are compared with them, the archive, create and update   *)
(* operations are issued together and awaited with Promise.allSettled.     *)
(* Pages and nodes are named by their Node ID.                             *)
(***************************************************************************)
RouteIds == {"1", "2"}

\* the lists of distinct Node IDs, in every order
RouteIdLists == UNION {Perms(S) : S \in SUBSET RouteIds}

\* frontendNodes.filter(node => !notionPagesMap.get(node.id))
nodesToCreate(body, pages) ==
  SelectSeq(body.nodes, LAMBDA nodeId : nodeId \notin Range(pages))

\* the nodes with a page for which havePropertiesChanged is true
pagesToUpdate(body, pages) ==
  SelectSeq(body.nodes, LAMBDA nodeId : nodeId \in Range(pages) /\ nodeId \in body.changed)

\* the pages whose Node ID is not among the nodes of the request
pagesToDelete(body, pages) ==
  SelectSeq(pages, LAMBDA nodeId : nodeId \notin Range(body.nodes))

issued(op, ids) == [k \in 1..Len(ids) |-> [op |-> op, nodeId |-> ids[k], status |-> "pending"]]

\* the promises array: deletions, then creations, then updates
promises(body, pages) ==
  issued("archive", pagesToDelete(body, pages))
    \o issued("create", nodesToCreate(body, pages))
    \o issued("update", pagesToUpdate(body, pages))

\* lines 262-285: the rejected operations are counted and logged, and the
\* response is { success: true } in either case
syncResponse(settled) == [status |-> 200, success |-> TRUE]

\* the request is read and the database queried; the query may throw, which
\* the catch block answers with an error
RouteQuery ==
  /\ routePc = "request"
  /\ \/ /\ routePromises' = promises(routeBody, routePages)
        /\ routePc' = "settle"
        /\ UNCHANGED routeResponse
     \/ /\ routeResponse' = <<[status |-> 500, success |-> FALSE]>>
        /\ routePc' = "done"
        /\ UNCHANGED routePromises
  /\ UNCHANGED <<orderVars, graphVars, syncVars, cleanupVars, authVars, lsReturned,
                 routeBody, routePages>>

\* the Notion API settles one of the operations: it is carried out, or rejected
RouteSettle ==
  \E k \in 1..Len(routePromises), outcome \in {"fulfilled", "rejected"} :
    /\ routePc = "settle"
    /\ routePromises[k].status = "pending"
    /\ routePromises' = [routePromises EXCEPT ![k].status = outcome]
    /\ routePages' =
         IF outcome = "rejected" THEN routePages
         ELSE IF routePromises[k].op = "archive"
              THEN SelectSeq(routePages, LAMBDA nodeId : nodeId # routePromises[k].nodeId)
         ELSE IF routePromises[k].op = "create"
              THEN Append(routePages, routePromises[k].nodeId)
         ELSE routePages
    /\ UNCHANGED <<orderVars, graphVars, syncVars, cleanupVars, authVars, lsReturned,
                   routePc, routeBody, routeResponse>>

\* Promise.allSettled has resolved, or there was nothing to await
RouteRespond ==
  /\ routePc = "settle"
  /\ \A k \in 1..Len(routePromises) : routePromises[k].status # "pending"
  /\ routeResponse' = <<syncResponse(routePromises)>>
  /\ routePc' = "done"
  /\ UNCHANGED <<orderVars, graphVars, syncVars, cleanupVars, authVars, lsReturned,
                 routeBody, routePages, routePromises>>

RouteStart ==
  /\ OrderIdle
  /\ EditorInit(FALSE, <<>>)
  /\ rawStorage = <<>>
  /\ startupTime = 0
  /\ cleanupPc = "done"
  /\ itemsRemoved = 0
  /\ lsReturned = NotCalled
  /\ routePc = "request"
  /\ \E n \in RouteIdLists, c \in SUBSET RouteIds :
       routeBody = [nodes |-> n, changed |-> c \cap Range(n)]
  /\ routePages \in RouteIdLists
  /\ routePromises = <<>>
  /\ routeResponse = <<>>

RouteNext == RouteQuery \/ RouteSettle \/ RouteRespond

SpecRoute == RouteStart /\ [][RouteNext]_vars

(***************************************************************************)
(* SpecGraph: the operations that change the graph, those of the canvas    *)
(* and of the list, in a session that is left at most once, for a saved    *)
(* document or for a new canvas.                                           *)
(***************************************************************************)
GraphStart == OrderIdle /\ CleanupIdle /\ EditorInit(TRUE, <<>>)

\* the cap on the sessions of a behaviour: the session of the mount is still
\* the current one and no load is in flight
firstSession == currentUuid = generateUuid(0) /\ loads = <<>>

GraphNext ==
  \/ AddNode \/ Connect \/ CanvasRemove
  \/ MenuCut \/ MenuDelete \/ MenuBreakSort \/ Paste \/ ListDelete
  \/ (firstSession /\ LoadFlowchart)
  \/ LoadResponseOk
  \/ (firstSession /\ NewCanvas)

SpecGraph == GraphStart /\ [][GraphNext]_vars

(***************************************************************************)
(* SpecComplete: tasks ticked and unticked in the list with the checkbox   *)
(* while the graph is edited on the canvas and in the list.                *)
(***************************************************************************)
CompleteStart == OrderIdle /\ CleanupIdle /\ EditorInit(FALSE, <<>>)

CompleteNext ==
  \/ AddNode \/ MoveNode \/ Connect \/ RemoveEdge \/ CanvasRemove
  \/ MenuCut \/ MenuDelete
  \/ ToggleComplete \/ ListDelete \/ DragEnd

SpecComplete == CompleteStart /\ [][CompleteNext]_vars

(***************************************************************************)
(* Graph predicates used by the claims about the order.                    *)
(***************************************************************************)
\* the edges whose two ends are nodes of the list
LiveEdges(n, e) ==
  {<<e[k].source, e[k].target>> :
     k \in {j \in 1..Len(e) : edgeCounts(n, e[j])}}

\* v is reached from u by one or more live edges (paths of at most n edges)
RECURSIVE ReachIn(_, _, _, _)
ReachIn(E, u, v, n) ==
  IF n = 0 THEN FALSE
  ELSE \/ <<u, v>> \in E
       \/ \E w \in {e[2] : e \in {f \in E : f[1] = u}} : ReachIn(E, w, v, n - 1)

Acyclic(n, e) ==
  LET E == LiveEdges(n, e)
  IN \A u \in NodeIds(n) : ~ReachIn(E, u, u, Len(n))

(***************************************************************************)
(* C1: for every node list with pairwise-distinct ids and every edge list  *)
(* (self-loops, parallel edges, cycles, ends naming absent ids), the list  *)
(* getOrderedTasks returns holds every input node id exactly once and no   *)
(* other id.                                                               *)
(***************************************************************************)
C1_Totality ==
  oPc = "done" =>
    /\ oResult = getOrderedTasks(oNodes, oEdges)
    /\ NodeIds(oResult) = NodeIds(oNodes)
    /\ Len(oResult) = Len(oNodes)
    /\ \A v \in NodeIds(oNodes) : Count(IdsOf(oResult), v) = 1

\* a finished run on a cyclic graph with a self-loop, a parallel edge or an
\* edge to an absent id
C1_Witness ==
  /\ oPc = "done"
  /\ Len(oNodes) = MaxNodes
  /\ ~Acyclic(oNodes, oEdges)
  /\ \E k \in 1..Len(oEdges) : ~edgeCounts(oNodes, oEdges[k])

(***************************************************************************)
(* C2: on an acyclic graph, for every edge u -> v with both ends in the    *)
(* node list, u stands at a strictly smaller index than v in the result.   *)
(***************************************************************************)
C2_TopologicalOnDags ==
  (oPc = "done" /\ Acyclic(oNodes, oEdges)) =>
    \A e \in LiveEdges(oNodes, oEdges) :
      /\ IndexOf(IdsOf(oResult), e[1]) > 0
      /\ IndexOf(IdsOf(oResult), e[1]) < IndexOf(IdsOf(oResult), e[2])

\* a finished run on a DAG whose edges run against the node list's order
C2_Witness ==
  /\ oPc = "done"
  /\ Acyclic(oNodes, oEdges)
  /\ Cardinality(LiveEdges(oNodes, oEdges)) >= 2
  /\ \E e \in LiveEdges(oNodes, oEdges) :
       IndexOf(IdsOf(oNodes), e[1]) > IndexOf(IdsOf(oNodes), e[2])

(***************************************************************************)
(* Predicates used by the claims about the editor.                         *)
(***************************************************************************)
\* some edge of e has x at one of its ends
references(e, x) == \E k \in 1..Len(e) : e[k].source = x \/ e[k].target = x

\* the step hands a load response to its callback: one request leaves loads
loadResponseFor(k) == k \in 1..Len(loads) /\ loads' = removeAt(loads, k)

\* the session has moved to another document since the request was made
stale(req) == currentUuid \notin {req.uuid, req.session}

\* the step hands the save response to confirmSave
saveResponse == saves # <<>> /\ saves' = Tail(saves)

(***************************************************************************)
(* C3: a step that removes node X from the node set (the context menu's    *)
(* 'delete' or 'cut', or the todo list's delete confirmation) removes X    *)
(* alone from the nodes and leaves no edge with source X or target X.      *)
(***************************************************************************)
C3_DeletionCascades ==
  [][\A x \in NodeIds(nodes) \ NodeIds(nodes') :
       /\ nodes' = withoutNode(nodes, x)
       /\ ~references(edges', x)
       /\ \A k \in 1..Len(edges) :
            (edges[k].source # x /\ edges[k].target # x) =>
              \E j \in 1..Len(edges') : edges'[j] = edges[k]]_vars

\* node "1" of the restored graph was cut with its edge 2 -> 1: it is on the
\* clipboard, node "2" is left without an edge, and no id was handed out
C3_Witness ==
  /\ clipboard = <<[node |-> NewNode("1"), type |-> "cut"]>>
  /\ IdsOf(nodes) = <<"2">>
  /\ edges = <<>>
  /\ id = 1

(***************************************************************************)
(* C4: whatever addNode and paste operations were applied, each taking its *)
(* id from getId, the ids of the nodes of the graph are pairwise distinct. *)
(***************************************************************************)
C4_IdsPairwiseDistinct ==
  \A i, j \in 1..Len(nodes) : i # j => nodes[i].id # nodes[j].id

\* a graph restored with the ids "1" and "2" while the counter restarted at
\* 1: the node added or pasted next took the id "3"
C4_Witness ==
  /\ IdsOf(nodes) = <<"1", "2", "3">>
  /\ id = 4
  /\ clipboard # <<>>

(***************************************************************************)
(* C5: once the list was reordered by a drag, a graph change that alters   *)
(* no edge and no node membership (a node is moved) leaves the manual task *)
(* sequence as it was.                                                     *)
(***************************************************************************)
C5_ManualOrderSurvivesMove ==
  [][(nodes' # nodes /\ IdsOf(nodes') = IdsOf(nodes) /\ edges' = edges)
       => taskOrder' = taskOrder]_vars

(***************************************************************************)
(* C6: when a load for X is in flight and the session has moved to another *)
(* document Y, handing the late response for X to its callback changes     *)
(* none of nodes, edges, tag and current identifier.                       *)
(***************************************************************************)
C6_StaleLoadResponseDiscarded ==
  [][\A k \in 1..Len(loads) :
       (loadResponseFor(k) /\ stale(loads[k])) =>
         /\ nodes' = nodes
         /\ edges' = edges
         /\ currentTag' = currentTag
         /\ currentUuid' = currentUuid]_vars

(***************************************************************************)
(* C7: a load response handled after the graph was edited locally (the     *)
(* edit set the unsaved flag while the load was outstanding) leaves the    *)
(* edited nodes and edges in place.                                        *)
(***************************************************************************)
C7_LoadKeepsLocalEdits ==
  [][(isLoading /\ hasUnsavedChanges /\ \E k \in 1..Len(loads) : loadResponseFor(k))
       => (nodes' = nodes /\ edges' = edges)]_vars

(***************************************************************************)
(* C8: once the response of a successful save for X has been handled, the  *)
(* unsaved-changes flag is false and the cache holds no entry for X.       *)
(***************************************************************************)
C8_SaveSuccessClears ==
  [][(saveResponse /\ notice' = "save: saved")
       => (~hasUnsavedChanges' /\ Head(saves).uuid \notin DOMAIN localStorage')]_vars

(***************************************************************************)
(* C9: a save attempted with an empty tag or with no node is rejected      *)
(* before any request is issued (no request or stored document ever has an *)
(* empty tag or no node), and the rejection leaves nodes, edges, current   *)
(* identifier, cache, unsaved-changes flag, requests and store unchanged.  *)
(***************************************************************************)
C9_InvalidSaveRejected ==
  [][/\ \A k \in 1..Len(saves') : saves'[k].tag # "" /\ Len(saves'[k].nodes) > 0
     /\ \A u \in DOMAIN remote' : remote'[u].tag # "" /\ Len(remote'[u].nodes) > 0
     /\ (notice' # notice
          /\ notice' \in {"save: the tag is empty", "save: the canvas is empty"})
         => UNCHANGED <<nodes, edges, currentTag, currentUuid, localStorage,
                        hasUnsavedChanges, saves, remote, isSaving>>]_vars

\* a save with an empty tag was turned down on a canvas that has nodes
C9_Witness ==
  /\ notice = "save: the tag is empty"
  /\ Len(nodes) > 0
  /\ saves = <<>>
  /\ ~isSaving

(***************************************************************************)
(* C10: handling the failure of a save (a response that is not OK, or a    *)
(* transport error) leaves nodes, edges, tag and current identifier as     *)
(* they were, keeps the cache entry of the identifier, and does not clear  *)
(* the unsaved-changes flag.                                               *)
(***************************************************************************)
C10_SaveFailureKeepsState ==
  [][(saveResponse /\ notice' = "save: failed") =>
       /\ UNCHANGED <<nodes, edges, currentTag, currentUuid, remote>>
       /\ Head(saves).uuid \in DOMAIN localStorage =>
            /\ Head(saves).uuid \in DOMAIN localStorage'
            /\ localStorage'[Head(saves).uuid] = localStorage[Head(saves).uuid]
       /\ hasUnsavedChanges => hasUnsavedChanges']_vars

\* a save has failed while a load was outstanding: the graph is unsaved and
\* its cache entry is there
C10_Witness ==
  /\ notice = "save: failed"
  /\ isLoading
  /\ hasUnsavedChanges
  /\ Len(nodes) > 0
  /\ currentUuid \in DOMAIN localStorage

\* the step hands the OK response of request k to its callback: only that
\* callback makes the requested identifier the current one
loadSucceeded(k) ==
  /\ loadResponseFor(k)
  /\ currentUuid # loads[k].uuid
  /\ currentUuid' = loads[k].uuid

(***************************************************************************)
(* C11: once the OK response of a load has been handled, and the effects   *)
(* that follow it have run, the unsaved-changes flag is false and the      *)
(* cache holds no scratch entry.                                           *)
(***************************************************************************)
C11_LoadSuccessClears ==
  [][\A k \in 1..Len(loads) :
       loadSucceeded(k) =>
         (~hasUnsavedChanges' /\ ScratchKey \notin DOMAIN localStorage')]_vars

\* the step hands a failure of request k to its callback: the OK branch
\* always shows the success message
loadFailed(k) == loadResponseFor(k) /\ loadFlow' # "load: loaded"

(***************************************************************************)
(* C12: when the fetch of a load fails and a valid cache entry exists for  *)
(* the requested identifier, the warning is shown and, no other load being *)
(* in flight and the session being the one the request opened and not      *)
(* edited since, the graph in memory is the graph of that entry; when none *)
(* exists, the error is shown and nodes, edges, tag and current identifier *)
(* are left as they were.                                                  *)
(***************************************************************************)
C12_LoadFailureFallsBack ==
  [][\A k \in 1..Len(loads) :
       loadFailed(k) =>
         LET localData == loadFromLocalStorage(localStorage, loads[k].uuid) IN
         IF localData # <<>>
         THEN /\ loadFlow' = "load: local version shown"
              /\ (Len(loads) = 1 /\ currentUuid = loads[k].uuid /\ ~hasUnsavedChanges)
                    => /\ nodes' = localData[1].nodes
                       /\ edges' = localData[1].edges
                       /\ currentTag' = localData[1].tag
         ELSE /\ loadFlow' = "load: failed"
              /\ UNCHANGED <<nodes, edges, currentTag, currentUuid>>]_vars

\* the step hands the OK response of the delete request to its callback: the
\* document leaves the remote store
deleteSucceeded ==
  /\ deletes # <<>>
  /\ deletes' = Tail(deletes)
  /\ Head(deletes).uuid \notin DOMAIN remote'

(***************************************************************************)
(* C13: when the delete of the open document has succeeded, the graph is   *)
(* empty, the tag is the default tag, the current identifier is another    *)
(* one and the cache holds no entry for the deleted identifier; when the   *)
(* deleted document is not the open one, nodes, edges and the current      *)
(* identifier are left as they were.                                       *)
(***************************************************************************)
C13_DeleteResetsOpenOnly ==
  [][deleteSucceeded =>
       IF Head(deletes).uuid = currentUuid
       THEN /\ nodes' = <<>>
            /\ edges' = <<>>
            /\ currentTag' = DefaultTag
            /\ currentUuid' # Head(deletes).uuid
            /\ Head(deletes).uuid \notin DOMAIN localStorage'
       ELSE UNCHANGED <<nodes, edges, currentUuid>>]_vars

\* the step is a mutation of the graph or of the tag by the user: no request
\* starts or ends and the session stays the same
graphMutation ==
  /\ nodes' # nodes \/ edges' # edges \/ currentTag' # currentTag
  /\ UNCHANGED <<loads, saves, deletes, currentUuid>>

(***************************************************************************)
(* C14: once a mutation of the graph or of the tag has been processed, the *)
(* cache entry under the current identifier is a stamped entry of the      *)
(* current nodes, edges and tag, and the unsaved-changes flag is set.      *)
(***************************************************************************)
C14_MutationIsCached ==
  [][graphMutation =>
       /\ hasUnsavedChanges'
       /\ currentUuid' \in DOMAIN localStorage'
       /\ localStorage'[currentUuid'] = stampedEntry(nodes', edges', currentTag')]_vars

\* what the sentence says of a stored text: it parses, it carries a
\* timestamp, and its age at the time of the cleanup
parses(item) == item.kind \in {"object", "null"}
stamped(item) == item.kind = "object" /\ item.savedAt # <<>>
ageOf(item) == startupTime - item.savedAt[1]
SevenDays == 7 * 24 * 60 * 60 * 1000
namespaced(key) == Len(key) >= 2 /\ SubSeq(key, 1, 2) = <<"visual-todoflow", ":">>

hasLiveEdge(n, e, x) ==
  \E k \in 1..Len(e) :
    /\ x \in {e[k].source, e[k].target}
    /\ {e[k].source, e[k].target} \subseteq NodeIds(n)

(***************************************************************************)
(* C16: in the todo list of the editor every node is in exactly one of the *)
(* two sections, and it is in the ordered one exactly when it is at an     *)
(* edge whose two ends exist; a node with no edge is in the unordered one. *)
(***************************************************************************)
C16_PartitionByConnection ==
  \A x \in NodeIds(nodes) :
    LET ordered == x \in Range(sortedTasks(taskOrder, nodes))
        unordered == x \in Range(unsortedTasks(taskOrder, nodes))
    IN /\ ordered # unordered
       /\ ordered <=> hasLiveEdge(nodes, edges, x)

\* the step takes away exactly the edges at node x, which had some, and
\* leaves the nodes alone
brokenFromOrder(x) ==
  /\ references(edges, x)
  /\ nodes' = nodes
  /\ edges' = SelectSeq(edges, LAMBDA ed : ed.source # x /\ ed.target # x)

(***************************************************************************)
(* C17: when 'break from order' has taken the edges of a node away, no     *)
(* edge is at the node, no node is gone, and in the todo list of the       *)
(* editor the node is in the unordered section and not in the task order.  *)
(***************************************************************************)
C17_BreakLeavesOrder ==
  [][\A x \in NodeIds(nodes) :
       brokenFromOrder(x) =>
         /\ ~references(edges', x)
         /\ NodeIds(nodes') = NodeIds(nodes)
         /\ x \in Range(unsortedTasks(taskOrder', nodes'))
         /\ x \notin Range(taskOrder')]_vars

(***************************************************************************)
(* C18: the source and the target of every edge of the editor are ids of   *)
(* nodes of the editor.                                                    *)
(***************************************************************************)
C18_EdgesReferenceNodes ==
  \A k \in 1..Len(edges) :
    /\ \E j \in 1..Len(nodes) : nodes[j].id = edges[k].source
    /\ \E j \in 1..Len(nodes) : nodes[j].id = edges[k].target

\* a saved document has been loaded, a node added to it has been cut, and an
\* edge is left
C18_Witness ==
  /\ currentUuid \in DocIds
  /\ clipboard # <<>>
  /\ clipboard[1].type = "cut"
  /\ edges # <<>>

\* the step is the context menu's 'cut': a node goes to the clipboard as cut
cutStep ==
  /\ clipboard' # clipboard
  /\ clipboard' # <<>>
  /\ clipboard'[1].type = "cut"

(***************************************************************************)
(* C19: a context-menu 'cut' removes no node that is marked complete, and  *)
(* a node that stays and is un-marked by the step is again draggable,      *)
(* selectable, connectable and deletable.                                  *)
(***************************************************************************)
C19_CompletedNodeStays ==
  [][/\ cutStep => \A k \in 1..Len(nodes) :
                     nodes[k].completed => nodes[k].id \in NodeIds(nodes')
     /\ \A k \in 1..Len(nodes') :
          (nodes'[k].id \in completedTasks /\ nodes'[k].id \notin completedTasks')
            => /\ nodes'[k].draggable /\ nodes'[k].selectable
               /\ nodes'[k].connectable /\ nodes'[k].deletable]_vars

\* the two lists hold the same nodes, up to their positions
sameButPositions(n1, n2) ==
  /\ Len(n1) = Len(n2)
  /\ \A k \in 1..Len(n1) : [n1[k] EXCEPT !.position = 0] = [n2[k] EXCEPT !.position = 0]

(***************************************************************************)
(* C20: the completion set holds ids of nodes of the graph only, the id of *)
(* a node that a step deletes is not in it afterwards, and a step that     *)
(* leaves the nodes as they are up to their positions (an edge added or    *)
(* removed, the tasks reordered, a node moved) leaves the set as it is.    *)
(***************************************************************************)
C20_CompletionFollowsNodes ==
  [][/\ \A x \in completedTasks' : \E k \in 1..Len(nodes') : nodes'[k].id = x
     /\ \A k \in 1..Len(nodes) :
          (\A j \in 1..Len(nodes') : nodes'[j].id # nodes[k].id)
            => nodes[k].id \notin completedTasks'
     /\ sameButPositions(nodes, nodes') => completedTasks' = completedTasks]_vars

\* a completed node has been cut from the graph, another node is still
\* marked complete and an edge is drawn
C20_Witness ==
  /\ clipboard # <<>>
  /\ clipboard[1].type = "cut"
  /\ clipboard[1].node.completed
  /\ clipboard[1].node.id \notin NodeIds(nodes)
  /\ completedTasks # {}
  /\ edges # <<>>


\* a load, a save or a delete is asked for
remoteOperation == LoadFlowchart \/ ConfirmSave \/ ConfirmDelete

\* no request leaves: the queues of requests in flight are as before
noRequestIssued == loads' = loads /\ saves' = saves /\ deletes' = deletes

\* C21: when no valid credential is present (the stored token is absent or
\* older than its expiry), load, save and delete issue no remote request,
\* leave nodes, edges, tag, current identifier and cache unchanged, and
\* show the login modal.
C21_NoCredentialDefers ==
  [][(storedToken # "fresh" /\ remoteOperation)
       => /\ noRequestIssued
          /\ UNCHANGED <<nodes, edges, currentTag, currentUuid, localStorage>>
          /\ showLoginModal']_vars

\* the guard as the code has it: on the auth state of the page
C21_UnauthenticatedDefers ==
  [][(~isAuthenticated /\ remoteOperation)
       => /\ noRequestIssued
          /\ UNCHANGED <<nodes, edges, currentTag, currentUuid, localStorage>>
          /\ showLoginModal']_vars


(***************************************************************************)
(* C22: getOrderedTasks terminates on every finite input, graphs with      *)
(* self-loops, parallel edges and cycles included: each node id is pushed  *)
(* on the queue at most once, so the while loop makes at most |nodes|      *)
(* passes, and the run reaches its return.                                 *)
(***************************************************************************)
C22_Terminates ==
  /\ [](/\ \A v \in NodeIds(oNodes) : oPushes[v] <= 1
        /\ oIterations <= Len(oNodes))
  /\ <>(oPc = "done")

\* a finished run over parallel edges in which every node was dequeued
C22_Witness ==
  /\ oPc = "done"
  /\ Len(oNodes) = MaxNodes
  /\ oIterations = Len(oNodes)
  /\ Len(oEdges) = 2
  /\ oEdges[1] = oEdges[2]
  /\ edgeCounts(oNodes, oEdges[1])
  /\ oPushes[oEdges[1].target] = 1

\* a finished run over a cycle behind a seed: the loop stops short of the cycle
C22_WitnessCycle ==
  /\ oPc = "done"
  /\ ~Acyclic(oNodes, oEdges)
  /\ oIterations >= 1
  /\ oIterations < Len(oNodes)


\* the ids the loop never dequeued, and the ids no counted edge points at
unvisitedIds == {v \in NodeIds(oNodes) : oPushes[v] = 0}

seedIds == {v \in NodeIds(oNodes) : \A e \in LiveEdges(oNodes, oEdges) : e[2] # v}

\* a stands before b in the list of ids s
before(s, a, b) == IndexOf(s, a) < IndexOf(s, b)

(***************************************************************************)
(* C23: when the loop of getOrderedTasks leaves nodes unvisited, the       *)
(* result is the sorted prefix followed by all unvisited nodes in the      *)
(* relative order they have in the input node list, and the zero in-degree *)
(* seeds of the prefix appear in input node order.                         *)
(***************************************************************************)
C23_RemainderInInputOrder ==
  (oPc = "done" /\ unvisitedIds # {}) =>
    LET n == Len(oNodes) - Cardinality(unvisitedIds)
        ids == IdsOf(oResult)
    IN /\ Len(oResult) = Len(oNodes)
       /\ SubSeq(oResult, 1, n) = oState.sortedList
       /\ \A i \in 1..Len(ids) : (i > n) <=> (ids[i] \in unvisitedIds)
       /\ \A a, b \in unvisitedIds :
            before(IdsOf(oNodes), a, b) => before(ids, a, b)
       /\ \A a, b \in seedIds :
            before(IdsOf(oNodes), a, b) => before(ids, a, b)
       /\ \A a \in seedIds : \A b \in NodeIds(oNodes) \ seedIds : before(ids, a, b)

\* a finished run that left a 2-cycle unvisited behind a seed listed last
C23_Witness ==
  /\ oPc = "done"
  /\ Cardinality(unvisitedIds) = 2
  /\ Cardinality(seedIds) = 1
  /\ \A v \in seedIds : IndexOf(IdsOf(oNodes), v) = Len(oNodes)
  /\ \A v \in seedIds : IndexOf(IdsOf(oResult), v) = 1


\* the numeric id of the node a step appended
appendedId == parseInt(nodes'[Len(nodes')].id)[1]

(***************************************************************************)
(* C24: the id that addNode assigns to a new node equals the largest       *)
(* numeric id among the nodes present at call time, plus one, in every     *)
(* state reachable by add, paste, delete and load operations.              *)
(***************************************************************************)
C24_IdIsMaxPlusOne ==
  [][AddNode => appendedId = maxNumericId(nodes) + 1]_vars

\* C24 with the counter taken into account: the id that addNode assigns is
\* larger than every numeric id present; it is the largest of them plus one
\* when the module counter is not ahead of the ids present, and the counter
\* itself when it is ahead (ids of deleted nodes are not handed out again).
C24_IdAboveMaxAndCounter ==
  [][AddNode =>
       /\ appendedId > maxNumericId(nodes)
       /\ appendedId >= id
       /\ (id <= maxNumericId(nodes) => appendedId = maxNumericId(nodes) + 1)
       /\ (id > maxNumericId(nodes) => appendedId = id)
       /\ id' = appendedId + 1]_vars

\* the node "2" was deleted and the node added next took the id "3"
C24_Witness ==
  /\ IdsOf(nodes) = <<"1", "3">>
  /\ id = 4


\* t holds the entries of s, each as often as s does
permutationOf(t, s) ==
  /\ Len(t) = Len(s)
  /\ \A x \in Range(s) \cup Range(t) : Count(t, x) = Count(s, x)

(***************************************************************************)
(* C25: a drag of the list item A dropped over the item B, A different     *)
(* from B and both in the manual sequence, leaves a permutation of the     *)
(* previous sequence (same ids, each exactly once) with A at B's former    *)
(* index, and leaves the nodes and edges of the graph unchanged; a drop    *)
(* with no target or onto the item itself changes nothing.                 *)
(***************************************************************************)
C25_DragIsPermutation ==
  [][\A a \in Range(taskOrder), b \in Range(taskOrder) \cup {NoOver} :
       handleDragEnd(a, b) =>
         /\ UNCHANGED <<nodes, edges>>
         /\ IF b = NoOver \/ a = b
            THEN UNCHANGED taskOrder
            ELSE /\ permutationOf(taskOrder', taskOrder)
                 /\ \A x \in Range(taskOrder') : Count(taskOrder', x) = 1
                 /\ taskOrder'[IndexOf(taskOrder, b)] = a]_vars

\* three unconnected tasks after the last one was dragged onto the first
C25_Witness ==
  /\ edges = <<>>
  /\ IdsOf(nodes) = <<"1", "2", "3">>
  /\ taskOrder = <<"3", "1", "2">>


\* the step hands the OK response of the only request in flight to its
\* callback, in the session the request was made in and with no edit since
loadCompletes(k) ==
  /\ loadResponseFor(k)
  /\ loadFlow' = "load: loaded"
  /\ Len(loads) = 1
  /\ currentUuid = loads[k].session
  /\ ~hasUnsavedChanges

(***************************************************************************)
(* C26: after the load of X completes with a successful response R and no  *)
(* local edit was made in between, the nodes and edges in memory are R's   *)
(* and the current identifier is X, whatever graph was open before the     *)
(* load (one with R's node count, edge count and tag included).            *)
(***************************************************************************)
C26_LoadShowsResponse ==
  [][\A k \in 1..Len(loads) :
       loadCompletes(k) =>
         /\ nodes' = remote[loads[k].uuid].nodes
         /\ edges' = remote[loads[k].uuid].edges
         /\ currentUuid' = loads[k].uuid]_vars

\* the same for a graph that differs from R in node count, edge count or tag
C26_LoadShowsDifferingResponse ==
  [][\A k \in 1..Len(loads) :
       (loadCompletes(k) /\ loadApplies(loads[k], remote[loads[k].uuid])) =>
         /\ nodes' = remote[loads[k].uuid].nodes
         /\ edges' = remote[loads[k].uuid].edges
         /\ currentUuid' = loads[k].uuid]_vars


(***************************************************************************)
(* C27: whenever the scratch entry of the cache exists, its nodes, edges   *)
(* and tag are those of the graph in memory; after 'new canvas' or after   *)
(* the open document was deleted it does not hold the discarded graph.     *)
(***************************************************************************)
C27_ScratchMirrorsGraph ==
  ScratchKey \in DOMAIN localStorage =>
    /\ localStorage[ScratchKey].nodes = nodes
    /\ localStorage[ScratchKey].edges = edges
    /\ localStorage[ScratchKey].tag = currentTag

\* the scratch entry of a canvas that holds a node mirrors the graph
C27_ScratchMirrorsNonEmptyGraph ==
  (ScratchKey \in DOMAIN localStorage /\ hasUnsavedChanges /\ Len(nodes) > 0) =>
    /\ localStorage[ScratchKey].nodes = nodes
    /\ localStorage[ScratchKey].edges = edges
    /\ localStorage[ScratchKey].tag = currentTag


\* a load of u has been asked of the server, or u is the open document
loadPerformed(u) == currentUuid = u \/ \E k \in 1..Len(loads) : loads[k].uuid = u

(***************************************************************************)
(* C28: a load that was refused because the user was not authenticated     *)
(* (such as the load for the URL's talk parameter at session start, when   *)
(* the auth state is still unset) is eventually performed once the user is *)
(* authenticated, without the user asking for it again.                    *)
(***************************************************************************)
C28_RefusedLoadResumes ==
  \A u \in DocIds : (u \in refusedLoads /\ isAuthenticated) ~> loadPerformed(u)


\* the stored text is a JSON object with nodes, edges and savedAt
wellShaped(item) ==
  /\ item.kind = "object"
  /\ item.nodes # <<>>
  /\ item.edges # <<>>
  /\ item.savedAt # <<>>

\* the step is a call of loadFromLocalStorage for uuid
loadCall(uuid) == lsReturned'.uuid = uuid /\ uuid # NoUuid

(***************************************************************************)
(* C29: every cache entry that loadFromLocalStorage returns as valid holds *)
(* a nodes collection, an edges collection and a savedAt timestamp; an     *)
(* entry that fails this shape check or fails to parse is removed from the *)
(* cache and reported as absent (null).  An empty text under the key is    *)
(* taken for no entry.                                                     *)
(***************************************************************************)
C29_ValidEntryHasShape ==
  [][\A uuid \in CallUuids :
       loadCall(uuid) =>
         LET key == storageKey(uuid) IN
         /\ lsReturned'.value # <<>> =>
              /\ hasProperty(lsReturned'.value[1], "nodes")
              /\ hasProperty(lsReturned'.value[1], "edges")
              /\ hasProperty(lsReturned'.value[1], "savedAt")
         /\ (key \in DOMAIN rawStorage /\ rawStorage[key].kind # "empty"
               /\ ~wellShaped(rawStorage[key])) =>
              /\ key \notin DOMAIN rawStorage'
              /\ lsReturned'.value = <<>>]_vars

\* what the check of the code gives: a returned entry has a savedAt and one
\* of nodes and edges; an entry that is kept is one that was returned or an
\* empty text
C29_ValidEntryHasTimestamp ==
  [][\A uuid \in CallUuids :
       loadCall(uuid) =>
         LET key == storageKey(uuid) IN
         /\ lsReturned'.value # <<>> =>
              /\ hasProperty(lsReturned'.value[1], "nodes")
                   \/ hasProperty(lsReturned'.value[1], "edges")
              /\ hasProperty(lsReturned'.value[1], "savedAt")
         /\ (key \in DOMAIN rawStorage /\ lsReturned'.value = <<>>
               /\ rawStorage[key].kind # "empty")
              => key \notin DOMAIN rawStorage']_vars


(***************************************************************************)
(* C30: the save endpoint answers { success: true } only if every page     *)
(* create, update and archive operation it issued for the request was      *)
(* carried out; if one of them is rejected the response is an error.       *)
(***************************************************************************)
C30_SuccessMeansAllSynced ==
  (routePc = "done" /\ routeResponse[1].success) =>
    \A k \in 1..Len(routePromises) : routePromises[k].status = "fulfilled"

\* a success is answered only once every operation has settled
C30_SuccessAfterAllSettled ==
  (routePc = "done" /\ routeResponse[1].success) =>
    \A k \in 1..Len(routePromises) : routePromises[k].status # "pending"

=============================================================================
